---------------------------- MODULE Spec2Model ----------------------------
(***************************************************************************)
(* Model of the interactive session loop of src/agent.py (chat_loop, its   *)
(* input routine read_user_input_or_ctrl_n, and run_cmd).                  *)
(*                                                                         *)
(* Text typed by the operator is a sequence of character codes (Python     *)
(* ord values), so that strip/lower/startswith/split/int act on it as the  *)
(* code does.  Names of cluster objects and command outputs are opaque     *)
(* strings.  The session context, an f-string the code grows by            *)
(* concatenation, is the sequence of the blocks concatenated so far.       *)
(***************************************************************************)
EXTENDS Integers, Sequences, FiniteSets, TLC

None == "None"

(***************************************************************************)
(* Character codes the code names.                                         *)
(***************************************************************************)
CtrlN == 14
CR == 13
LF == 10
Backspace == 127
FirstPrintable == 32
LastPrintable == 126

Ord ==
    ("a" :> 97) @@ ("b" :> 98) @@ ("c" :> 99) @@ ("d" :> 100) @@ ("e" :> 101)
    @@ ("f" :> 102) @@ ("g" :> 103) @@ ("h" :> 104) @@ ("i" :> 105)
    @@ ("j" :> 106) @@ ("k" :> 107) @@ ("l" :> 108) @@ ("m" :> 109)
    @@ ("n" :> 110) @@ ("o" :> 111) @@ ("p" :> 112) @@ ("q" :> 113)
    @@ ("r" :> 114) @@ ("s" :> 115) @@ ("t" :> 116) @@ ("u" :> 117)
    @@ ("v" :> 118) @@ ("w" :> 119) @@ ("x" :> 120) @@ ("y" :> 121)
    @@ ("z" :> 122) @@ ("A" :> 65) @@ ("B" :> 66) @@ ("C" :> 67)
    @@ ("D" :> 68) @@ ("E" :> 69) @@ ("F" :> 70) @@ ("G" :> 71)
    @@ ("H" :> 72) @@ ("I" :> 73) @@ ("J" :> 74) @@ ("K" :> 75)
    @@ ("L" :> 76) @@ ("M" :> 77) @@ ("N" :> 78) @@ ("O" :> 79)
    @@ ("P" :> 80) @@ ("Q" :> 81) @@ ("R" :> 82) @@ ("S" :> 83)
    @@ ("T" :> 84) @@ ("U" :> 85) @@ ("V" :> 86) @@ ("W" :> 87)
    @@ ("X" :> 88) @@ ("Y" :> 89) @@ ("Z" :> 90) @@ ("0" :> 48)
    @@ ("1" :> 49) @@ ("2" :> 50) @@ ("3" :> 51) @@ ("4" :> 52)
    @@ ("5" :> 53) @@ ("6" :> 54) @@ ("7" :> 55) @@ ("8" :> 56)
    @@ ("9" :> 57) @@ (" " :> 32) @@ ("-" :> 45) @@ ("+" :> 43)
    @@ ("_" :> 95) @@ ("?" :> 63) @@ ("." :> 46) @@ ("," :> 44)

\* The character codes of a sequence of one-character strings.
Text(s) == [i \in DOMAIN s |-> Ord[s[i]]]

(***************************************************************************)
(* Python str methods used by chat_loop, on sequences of character codes.  *)
(***************************************************************************)
\* str.isspace for one character (ASCII range).
IsSpace(c) == c \in {9, 10, 11, 12, 13, 28, 29, 30, 31, 32}

RECURSIVE LStrip(_)
LStrip(s) ==
    IF s # <<>> /\ IsSpace(Head(s)) THEN LStrip(Tail(s)) ELSE s

RECURSIVE RStrip(_)
RStrip(s) ==
    IF s # <<>> /\ IsSpace(s[Len(s)]) THEN RStrip(SubSeq(s, 1, Len(s) - 1)) ELSE s

\* str.strip()
Strip(s) == RStrip(LStrip(s))

\* str.lower() (ASCII)
Lower(s) == [i \in DOMAIN s |-> IF s[i] \in 65..90 THEN s[i] + 32 ELSE s[i]]

\* Variant of StartsWith that matches p only as a whole first word.
StartsWith_Word(s, p) ==
    \/ s = p
    \/ Len(s) > Len(p) /\ SubSeq(s, 1, Len(p)) = p /\ IsSpace(s[Len(p) + 1])

\* str.startswith(p)
StartsWith(s, p) == Len(s) >= Len(p) /\ SubSeq(s, 1, Len(p)) = p

\* str.split(): the maximal runs of non-whitespace characters, in order.
RECURSIVE SplitFrom(_, _, _)
SplitFrom(s, i, cur) ==
    IF i > Len(s)
    THEN IF cur = <<>> THEN <<>> ELSE <<cur>>
    ELSE IF IsSpace(s[i])
         THEN (IF cur = <<>> THEN <<>> ELSE <<cur>>) \o SplitFrom(s, i + 1, <<>>)
         ELSE SplitFrom(s, i + 1, Append(cur, s[i]))

Split(s) == SplitFrom(s, 1, <<>>)

IsDigit(c) == c \in 48..57

\* The value of a run of digits with single underscores between digits,
\* or -1 when the run is not of that form.
RECURSIVE DigitsValue(_, _, _, _)
DigitsValue(s, i, acc, prevDigit) ==
    IF i > Len(s)
    THEN IF prevDigit THEN acc ELSE -1
    ELSE IF IsDigit(s[i])
         THEN DigitsValue(s, i + 1, acc * 10 + (s[i] - 48), TRUE)
         ELSE IF s[i] = 95 /\ prevDigit
              THEN DigitsValue(s, i + 1, acc, FALSE)
              ELSE -1

\* int(s): [ok |-> TRUE, val |-> n], or [ok |-> FALSE] where int raises
\* ValueError.
ParseInt(s0) ==
    LET s == Strip(s0)
        signed == s # <<>> /\ s[1] \in {43, 45}
        body == IF signed THEN Tail(s) ELSE s
        v == DigitsValue(body, 1, 0, FALSE)
    IN  IF v < 0
        THEN [ok |-> FALSE, val |-> 0]
        ELSE [ok |-> TRUE, val |-> IF signed /\ s[1] = 45 THEN 0 - v ELSE v]

kw_exit == Text(<<"e", "x", "i", "t">>)
kw_quit == Text(<<"q", "u", "i", "t">>)
kw_switch == Text(<<"s", "w", "i", "t", "c", "h">>)

(***************************************************************************)
(* read_user_input_or_ctrl_n: the bytes the operator types, consumed one   *)
(* at a time, up to the byte that ends the read.                           *)
(***************************************************************************)
RECURSIVE ReadFrom(_, _, _)
ReadFrom(keys, i, buf) ==
    IF i > Len(keys)
    THEN [done |-> FALSE, text |-> buf, ctrl_n |-> FALSE]
    ELSE LET ch == keys[i] IN
         IF ch = CtrlN
         THEN [done |-> TRUE, text |-> <<>>, ctrl_n |-> TRUE]
         ELSE IF ch \in {CR, LF}
         THEN [done |-> TRUE, text |-> Strip(buf), ctrl_n |-> FALSE]
         ELSE IF ch = Backspace
         THEN ReadFrom(keys, i + 1,
                       IF buf # <<>> THEN SubSeq(buf, 1, Len(buf) - 1)
                       ELSE buf)
         ELSE IF FirstPrintable <= ch /\ ch <= LastPrintable
         THEN ReadFrom(keys, i + 1, Append(buf, ch))
         ELSE ReadFrom(keys, i + 1, buf)

read_user_input_or_ctrl_n(keys) == ReadFrom(keys, 1, <<>>)

(***************************************************************************)
(* _format_bullets: the two re.sub passes of the FinalAnalysis branch.     *)
(***************************************************************************)
\* '-', '*' and the bullet glyph U+2022.
IsGlyph(c) == c \in {45, 42, 8226}

\* The first index >= i whose character is not whitespace (Len(s)+1 if none).
RECURSIVE SpaceRunEnd(_, _)
SpaceRunEnd(s, i) ==
    IF i <= Len(s) /\ IsSpace(s[i]) THEN SpaceRunEnd(s, i + 1) ELSE i

\* The first index >= i whose character is not a digit (Len(s)+1 if none).
RECURSIVE DigitRunEnd(_, _)
DigitRunEnd(s, i) ==
    IF i <= Len(s) /\ IsDigit(s[i]) THEN DigitRunEnd(s, i + 1) ELSE i

\* The lookbehinds (?<!^)(?<!\n): not at the start of the string and not
\* right after a line feed.
NotAtLineStart(s, i) == i > 1 /\ s[i - 1] # LF

\* ([-•*]\s+) at index i: the index after the match, or 0.
MatchBullet(s, i) ==
    IF IsGlyph(s[i]) /\ i + 1 <= Len(s) /\ IsSpace(s[i + 1])
    THEN SpaceRunEnd(s, i + 1)
    ELSE 0

\* (\d+\.\s+) at index i: the index after the match, or 0.
MatchNumbered(s, i) ==
    LET j == DigitRunEnd(s, i) IN
    IF j > i /\ j + 1 <= Len(s) /\ s[j] = 46 /\ IsSpace(s[j + 1])
    THEN SpaceRunEnd(s, j + 1)
    ELSE 0

\* re.sub(r"(?<!^)(?<!\n)([-•*]\s+)", r"\n\1", s), scanning from index i.
RECURSIVE SubBullets(_, _)
SubBullets(s, i) ==
    IF i > Len(s) THEN <<>>
    ELSE LET e == IF NotAtLineStart(s, i) THEN MatchBullet(s, i) ELSE 0 IN
         IF e > 0
         THEN <<LF>> \o SubSeq(s, i, e - 1) \o SubBullets(s, e)
         ELSE <<s[i]>> \o SubBullets(s, i + 1)

\* re.sub(r"(?<!^)(?<!\n)(\d+\.\s+)", r"\n\1", s), scanning from index i.
RECURSIVE SubNumbered(_, _)
SubNumbered(s, i) ==
    IF i > Len(s) THEN <<>>
    ELSE LET e == IF NotAtLineStart(s, i) THEN MatchNumbered(s, i) ELSE 0 IN
         IF e > 0
         THEN <<LF>> \o SubSeq(s, i, e - 1) \o SubNumbered(s, e)
         ELSE <<s[i]>> \o SubNumbered(s, i + 1)

_format_bullets(text) == SubNumbered(SubBullets(text, 1), 1)

(***************************************************************************)
(* Bounds of the model.                                                    *)
(***************************************************************************)
\* Largest working set passed to chat_loop.
MaxPods == 2
\* Largest number of blocks appended to a context before it is reset.
MaxCtx == 1

(***************************************************************************)
(* The values the environment supplies.                                    *)
(***************************************************************************)
\* Failing-pod tuples (namespace, name, reason, controller_kind,
\* controller_name) as get_failing_pods returns them.
PodPool ==
    << <<"prod", "api-1", "CrashLoopBackOff", "Deployment", "api">>,
       <<"prod", "db-0", "ImagePullBackOff", "StatefulSet", "db">>,
       <<"dev", "job-x", "Error", None, None>>,
       <<"dev", "web-2", "Pending", "ReplicaSet", "web-rs">> >>

WorkingSets ==
    {SubSeq(PodPool, 1, n) : n \in 1..(IF MaxPods < Len(PodPool) THEN MaxPods ELSE Len(PodPool))}

\* What the operator types at one prompt of the session loop.
Keystrokes ==
    { Text(<<"e", "x", "i", "t">>) \o <<CR>>,
      Text(<<" ", "E", "X", "I", "T">>) \o <<LF>>,
      Text(<<"q", "u", "i", "t">>) \o <<CR>>,
      <<CtrlN>>,
      Text(<<"h", "i">>) \o <<CtrlN>>,
      Text(<<"h", "i">>) \o <<CR>>,
      Text(<<"h", "i", "x">>) \o <<Backspace, 1, CR>>,
      <<CR>>,
      Text(<<"s", "w", "i", "t", "c", "h", " ", "1">>) \o <<CR>>,
      Text(<<"s", "w", "i", "t", "c", "h", " ", "2">>) \o <<CR>>,
      Text(<<"s", "w", "i", "t", "c", "h", " ", "3">>) \o <<CR>>,
      Text(<<"s", "w", "i", "t", "c", "h", " ", "0">>) \o <<CR>>,
      Text(<<"s", "w", "i", "t", "c", "h", " ", "-", "1">>) \o <<CR>>,
      Text(<<"s", "w", "i", "t", "c", "h", " ", "9">>) \o <<CR>>,
      Text(<<"s", "w", "i", "t", "c", "h">>) \o <<CR>>,
      Text(<<"s", "w", "i", "t", "c", "h", " ", "x">>) \o <<CR>>,
      Text(<<"s", "w", "i", "t", "c", "h", "i", "n", "g", " ", "1">>) \o <<CR>> }

\* What read_user_input_or_ctrl_n returns for them.
Reads == {read_user_input_or_ctrl_n(keys) : keys \in Keystrokes}

\* Namespace and name fields the oracle puts in an ActionRequest
\* (Optional[str], default None).
OracleNamespaces == {None, "prod"}
OracleNames == {None, "api-1"}

ActionTypes ==
    {"DESCRIBE_POD", "LOGS", "DESCRIBE_DEPLOYMENT", "GET_CONFIGMAP", "GET_EVENTS", "STOP"}

ActionRequests ==
    {[kind |-> "ActionRequest", type |-> t, namespace |-> n, name |-> m] :
        t \in ActionTypes, n \in OracleNamespaces, m \in OracleNames}

\* "- a\n- b" and "a - b 1. c"
FinalAnalyses ==
    {[kind |-> "FinalAnalysis", root_cause |-> "OOMKilled", remediation |-> r] :
        r \in { <<45, 32, 97, 10, 45, 32, 98>>,
                <<97, 32, 45, 32, 98, 32, 49, 46, 32, 99>> }}

\* A run result that is neither model: its output_text, its JSON dump (""
\* when it has none) and its str().
OtherReplies ==
    {[kind |-> "Other", output_text |-> "plain text", dump |-> "", str |-> "repr"],
     [kind |-> "Other", output_text |-> "", dump |-> "{json}", str |-> "repr"],
     [kind |-> "Other", output_text |-> "", dump |-> "", str |-> "repr"]}

OracleReplies == ActionRequests \cup FinalAnalyses \cup OtherReplies

\* How subprocess.check_output ends for an argv of strings.
ExecOutcomes == {"exit0", "nonzero", "cannot_launch"}

\* What read_namespaced_pod yields: it raises, or a pod whose spec lists
\* these init containers and containers by name ("" for a missing name).
PodReads ==
    {[raises |-> TRUE, init_containers |-> <<>>, containers |-> <<>>],
     [raises |-> FALSE, init_containers |-> <<>>, containers |-> <<"app">>],
     [raises |-> FALSE, init_containers |-> <<"app">>, containers |-> <<"app">>],
     [raises |-> FALSE, init_containers |-> <<"init">>, containers |-> <<"app", "init">>],
     [raises |-> FALSE, init_containers |-> <<"">>, containers |-> <<>>]}

\* What the operator answers to "Select a container (number): ": a line, or
\* the end of the input stream (input() raises EOFError).
ContainerEntries ==
    {[eof |-> FALSE, line |-> l] :
        l \in {Text(<<"1">>), Text(<<"2">>), Text(<<"0">>), Text(<<"3">>), Text(<<"x">>), <<>>}}
    \cup {[eof |-> TRUE, line |-> <<>>]}

(***************************************************************************)
(* State of chat_loop.  The variables carry the names of the locals of     *)
(* chat_loop; pc is the position of the loop, cmd the argv of the last     *)
(* run_cmd call, run_cmd_calls the number of run_cmd calls of the current  *)
(* iteration, printed the last message shown to the operator since the     *)
(* last line was read ("" when none) and exc the exception that left       *)
(* chat_loop, if one did.                                                  *)
(***************************************************************************)
VARIABLES all_pods, ns, pod, reason, current_idx, context, user_input, ctrl_n,
          user_prompt, result, target_namespace, target_pod, unique_names,
          selected_container, cmd, run_cmd_calls, printed, pc, exc

chat_vars ==
    <<all_pods, ns, pod, reason, current_idx, context, user_input, ctrl_n,
      user_prompt, result, target_namespace, target_pod, unique_names,
      selected_container, cmd, run_cmd_calls, printed, pc, exc>>

logs_locals == <<target_namespace, target_pod, unique_names, selected_container>>

(***************************************************************************)
(* State of get_failing_pods: items is pods.items, item_idx the number of  *)
(* pods the loop has examined, scan_reason the reason derived for the last *)
(* of them (empty when it was ready), rs_read what                         *)
(* read_namespaced_replica_set answered while its controller was resolved, *)
(* not_ready the list being built and scan_pc the position of the          *)
(* function.                                                               *)
(***************************************************************************)
VARIABLES items, item_idx, scan_reason, rs_read, not_ready, scan_pc

scan_vars == <<items, item_idx, scan_reason, rs_read, not_ready, scan_pc>>

(***************************************************************************)
(* State of one call of read_user_input_or_ctrl_n, byte by byte: stdin is  *)
(* the bytes not read yet, buffer and old_settings the locals, tty_attrs   *)
(* the attributes of the terminal, entry_attrs what they were when the     *)
(* call began, returned the value returned and rd_pc the position of the   *)
(* call.                                                                   *)
(***************************************************************************)
VARIABLES stdin, buffer, old_settings, tty_attrs, entry_attrs, returned, rd_pc

input_vars == <<stdin, buffer, old_settings, tty_attrs, entry_attrs, returned, rd_pc>>

\* The state of the functions other than chat_loop.
fn_vars == <<scan_vars, input_vars>>

vars == <<chat_vars, fn_vars>>

\* get_failing_pods is not running.
ScanIdle ==
    /\ items = <<>>
    /\ item_idx = 0
    /\ scan_reason = <<>>
    /\ rs_read = [called |-> FALSE, raises |-> FALSE, owner_references |-> <<>>]
    /\ not_ready = <<>>
    /\ scan_pc = "idle"

\* read_user_input_or_ctrl_n is not observed byte by byte.
InputIdle ==
    /\ stdin = <<>>
    /\ buffer = <<>>
    /\ old_settings = None
    /\ tty_attrs = "cooked"
    /\ entry_attrs = "cooked"
    /\ returned = [text |-> <<>>, ctrl_n |-> FALSE]
    /\ rd_pc = "idle"

\* f"Pod {pod} in namespace {ns} is failing: {reason}"
Describe(p, n, r) ==
    [block |-> "Pod", pod |-> p, namespace |-> n, reason |-> r]

\* Variant of FirstMatch that does not search.
FirstMatch_Zero(pods, n, p, r) == 0

\* The index next(...) finds for the initial target, 0 when there is none.
FirstMatch(pods, n, p, r) ==
    LET M == {i \in 1..Len(pods) : pods[i][1] = n /\ pods[i][2] = p /\ pods[i][3] = r}
    IN  IF M = {} THEN 0 ELSE (CHOOSE i \in M : \A j \in M : i <= j) - 1

\* The state when the loop is first entered: __main__ passes one record of
\* the working set as the initial target.
Init ==
    /\ all_pods \in WorkingSets
    /\ \E i \in 1..Len(all_pods) :
           /\ ns = all_pods[i][1]
           /\ pod = all_pods[i][2]
           /\ reason = all_pods[i][3]
    /\ current_idx = FirstMatch(all_pods, ns, pod, reason)
    /\ context = <<Describe(pod, ns, reason)>>
    /\ user_input = <<>>
    /\ ctrl_n = FALSE
    /\ user_prompt = <<>>
    /\ result = [kind |-> "NoResult"]
    /\ target_namespace = None
    /\ target_pod = None
    /\ unique_names = <<>>
    /\ selected_container = None
    /\ cmd = <<>>
    /\ run_cmd_calls = 0
    /\ printed = "Started"
    /\ pc = "AwaitingInput"
    /\ exc = ""
    /\ ScanIdle
    /\ InputIdle

(***************************************************************************)
(* One iteration of the loop from the prompt to the oracle call.           *)
(***************************************************************************)
\* Variant of NextIdx that stops at the last record instead of wrapping.
NextIdx_Clamped(idx, n) == IF idx + 1 < n THEN idx + 1 ELSE idx

\* current_idx = (current_idx + 1) % len(all_pods)
NextIdx(idx, n) == (idx + 1) % n

\* The assignments of a switch to the record at index idx (0-based).
SwitchTo(idx) ==
    /\ current_idx' = idx
    /\ ns' = all_pods[idx + 1][1]
    /\ pod' = all_pods[idx + 1][2]
    /\ reason' = all_pods[idx + 1][3]
    /\ context' = <<Describe(pod', ns', reason')>>
    /\ printed' = "Switched"

\* user_input.lower() in ["exit", "quit"]
IsExit(text) == Lower(text) \in {kw_exit, kw_quit}

\* Variant of SwitchIndex that takes the number as a 0-based index.
SwitchIndex_ZeroBased(text) ==
    LET toks == Split(text) IN
    IF Len(toks) < 2
    THEN [ok |-> FALSE, val |-> 0]
    ELSE LET n == ParseInt(toks[2]) IN [ok |-> n.ok, val |-> n.val]

\* int(user_input.split()[1]) - 1: [ok |-> FALSE] when split()[1] raises
\* IndexError or int raises ValueError.
SwitchIndex(text) ==
    LET toks == Split(text) IN
    IF Len(toks) < 2
    THEN [ok |-> FALSE, val |-> 0]
    ELSE LET n == ParseInt(toks[2]) IN [ok |-> n.ok, val |-> n.val - 1]

\* 0 <= idx < len(...)
ValidIndex(idx, n) == 0 <= idx /\ idx < n

\* f"{context}\nUser: {user_input}"
BuildPrompt(ctx, text) == Append(ctx, [block |-> "User", text |-> text])

\* The locals of the previous iteration are assigned again before they are
\* read; they are cleared when the next iteration reads its input.
NewIteration ==
    /\ result' = [kind |-> "NoResult"]
    /\ target_namespace' = None
    /\ target_pod' = None
    /\ unique_names' = <<>>
    /\ selected_container' = None
    /\ cmd' = <<>>
    /\ run_cmd_calls' = 0

\* Ctrl+N at the prompt.
SwitchSignal ==
    /\ pc = "AwaitingInput"
    /\ \E r \in Reads :
        /\ r.done /\ r.ctrl_n
        /\ user_input' = r.text
        /\ ctrl_n' = TRUE
        /\ SwitchTo(NextIdx(current_idx, Len(all_pods)))
    /\ NewIteration
    /\ user_prompt' = <<>>
    /\ UNCHANGED <<fn_vars, all_pods, pc, exc>>

\* A committed line that is an exit keyword.
ExitKeyword ==
    /\ pc = "AwaitingInput"
    /\ \E r \in Reads :
        /\ r.done /\ ~r.ctrl_n
        /\ IsExit(Strip(r.text))
        /\ user_input' = Strip(r.text)
        /\ ctrl_n' = FALSE
    /\ printed' = "Exiting"
    /\ pc' = "Exited"
    /\ NewIteration
    /\ user_prompt' = <<>>
    /\ UNCHANGED <<fn_vars, all_pods, ns, pod, reason, current_idx, context, exc>>

\* A committed line that starts with "switch".
LegacySwitch ==
    /\ pc = "AwaitingInput"
    /\ \E r \in Reads :
        LET text == Strip(r.text)
            idx == SwitchIndex(text)
        IN
        /\ r.done /\ ~r.ctrl_n
        /\ ~IsExit(text)
        /\ StartsWith(text, kw_switch)
        /\ user_input' = text
        /\ ctrl_n' = FALSE
        /\ IF idx.ok /\ ValidIndex(idx.val, Len(all_pods))
           THEN SwitchTo(idx.val)
           ELSE /\ printed' = (IF idx.ok THEN "InvalidChoice" ELSE "InvalidSwitch")
                /\ UNCHANGED <<ns, pod, reason, current_idx, context>>
    /\ NewIteration
    /\ user_prompt' = <<>>
    /\ UNCHANGED <<fn_vars, all_pods, pc, exc>>

\* Variant of SubmitText that stores the prompt as the new context before
\* the call.
SubmitText_Appends ==
    /\ pc = "AwaitingInput"
    /\ \E r \in Reads :
        LET text == Strip(r.text)
        IN
        /\ r.done /\ ~r.ctrl_n
        /\ ~IsExit(text)
        /\ ~StartsWith(text, kw_switch)
        /\ user_input' = text
        /\ ctrl_n' = FALSE
        /\ user_prompt' = BuildPrompt(context, text)
        /\ context' = user_prompt'
    /\ printed' = ""
    /\ pc' = "OracleTurn"
    /\ NewIteration
    /\ UNCHANGED <<fn_vars, all_pods, ns, pod, reason, current_idx, exc>>

\* Any other committed line: the prompt is built and agent.run is called.
SubmitText ==
    /\ pc = "AwaitingInput"
    /\ \E r \in Reads :
        LET text == Strip(r.text)
        IN
        /\ r.done /\ ~r.ctrl_n
        /\ ~IsExit(text)
        /\ ~StartsWith(text, kw_switch)
        /\ user_input' = text
        /\ ctrl_n' = FALSE
        /\ user_prompt' = BuildPrompt(context, text)
    /\ printed' = ""
    /\ pc' = "OracleTurn"
    /\ NewIteration
    /\ UNCHANGED <<fn_vars, all_pods, ns, pod, reason, current_idx, context, exc>>

(***************************************************************************)
(* The oracle call (agent.run) and the dispatch on its result.             *)
(***************************************************************************)
\* agent.run raises: the error is printed and the loop continues.
OracleRaises ==
    /\ pc = "OracleTurn"
    /\ printed' = "ModelError"
    /\ pc' = "AwaitingInput"
    /\ UNCHANGED <<fn_vars, all_pods, ns, pod, reason, current_idx, context, user_input,
                   ctrl_n, user_prompt, result, logs_locals, cmd, run_cmd_calls, exc>>

\* Variant of HandlingState in which a FinalAnalysis matches no branch.
HandlingState_NoAnalysis(r) ==
    IF r.kind = "ActionRequest" THEN "ActionHandling"
    ELSE IF r.kind = "FinalAnalysis" THEN "Unhandled"
    ELSE "PassthroughHandling"

\* The branch of the isinstance chain a result takes.
HandlingState(r) ==
    IF r.kind = "ActionRequest" THEN "ActionHandling"
    ELSE IF r.kind = "FinalAnalysis" THEN "AnalysisHandling"
    ELSE "PassthroughHandling"

\* agent.run returns.  A reply that makes the context grow is taken only
\* while the context holds at most MaxCtx blocks.
OracleReturns ==
    /\ pc = "OracleTurn"
    /\ \E r \in OracleReplies :
        /\ (r.kind = "ActionRequest" /\ r.type = "STOP") \/ Len(context) <= MaxCtx
        /\ result' = r
        /\ pc' = HandlingState(r)
    /\ UNCHANGED <<fn_vars, all_pods, ns, pod, reason, current_idx, context, user_input,
                   ctrl_n, user_prompt, logs_locals, cmd, run_cmd_calls, printed, exc>>

(***************************************************************************)
(* run_cmd and the commands of the ActionRequest branch.                   *)
(***************************************************************************)
HasNone(argv) == \E i \in DOMAIN argv : argv[i] = None

\* run_cmd(cmd) when check_output ends as `how`: the string returned, or
\* the exception that leaves run_cmd.  check_output raises TypeError for an
\* argv that holds None, CalledProcessError (caught) for a non-zero exit and
\* FileNotFoundError when the program cannot be started.
run_cmd(argv, how) ==
    IF HasNone(argv)
    THEN [raises |-> "TypeError", value |-> [tag |-> "", cmd |-> <<>>, text |-> ""]]
    ELSE IF how = "exit0"
    THEN [raises |-> "", value |-> [tag |-> "stdout", cmd |-> <<>>, text |-> "out"]]
    ELSE IF how = "nonzero"
    THEN [raises |-> "", value |-> [tag |-> "Error executing", cmd |-> argv, text |-> "out"]]
    ELSE [raises |-> "FileNotFoundError", value |-> [tag |-> "", cmd |-> <<>>, text |-> ""]]

\* Variant of IsStop that compares with the wrong literal.
IsStop_WrongCase(r) == r.type = "stop"

\* result.type == "STOP"
IsStop(r) == r.type = "STOP"

\* The argv of the branches other than LOGS; <<>> for the final else.
Argv(r) ==
    IF r.type = "DESCRIBE_POD"
    THEN <<"kubectl", "describe", "pod", r.name, "-n", r.namespace>>
    ELSE IF r.type = "DESCRIBE_DEPLOYMENT"
    THEN <<"kubectl", "describe", "deployment", r.name, "-n", r.namespace>>
    ELSE IF r.type = "GET_CONFIGMAP"
    THEN <<"kubectl", "get", "configmap", r.name, "-n", r.namespace, "-o", "yaml">>
    ELSE IF r.type = "GET_EVENTS"
    THEN <<"kubectl", "get", "events", "-n", r.namespace>>
    ELSE <<>>

\* Variant of LogsArgv that runs a command in the pod.
LogsArgv_Exec(tpod, tns, container) ==
    <<"kubectl", "exec", tpod, "-n", tns, "--", "sh">>

\* The argv of the LOGS branch.
LogsArgv(tpod, tns, container) ==
    <<"kubectl", "logs", tpod, "-n", tns, "--tail=100">>
    \o (IF container # None /\ container # "" THEN <<"-c", container>> ELSE <<>>)

\* x or y
Or(x, y) == IF x # None /\ x # "" THEN x ELSE y

\* Variant of AppendResult that assigns the block instead of appending it.
AppendResult_Replace(ctx, r, output) ==
    <<[block |-> "Result", type |-> r.type, namespace |-> r.namespace,
       name |-> r.name, output |-> output]>>

\* context += f"\n\n# Result of {result.type} ({result.namespace}/{result.name})\n{output}\n"
AppendResult(ctx, r, output) ==
    Append(ctx, [block |-> "Result", type |-> r.type, namespace |-> r.namespace,
                 name |-> r.name, output |-> output])

\* The call run_cmd(argv) and what follows it: the result block is appended
\* and the loop continues, or the exception leaves chat_loop.
RunAndAppend(argv, how) ==
    LET res == run_cmd(argv, how) IN
    /\ cmd' = argv
    /\ run_cmd_calls' = run_cmd_calls + 1
    /\ IF res.raises # ""
       THEN /\ pc' = "Crashed"
            /\ exc' = res.raises
            /\ UNCHANGED <<context, printed>>
       ELSE /\ pc' = "AwaitingInput"
            /\ context' = AppendResult(context, result, res.value)
            /\ printed' = "ClusterOutput"
            /\ UNCHANGED exc

\* result.type == "STOP": return.
ActionStop ==
    /\ pc = "ActionHandling"
    /\ IsStop(result)
    /\ printed' = "Stop"
    /\ pc' = "Exited"
    /\ UNCHANGED <<fn_vars, all_pods, ns, pod, reason, current_idx, context, user_input,
                   ctrl_n, user_prompt, result, logs_locals, cmd, run_cmd_calls, exc>>

\* DESCRIBE_POD, DESCRIBE_DEPLOYMENT, GET_CONFIGMAP, GET_EVENTS and the
\* final else.
ActionExecute ==
    /\ pc = "ActionHandling"
    /\ ~IsStop(result)
    /\ result.type # "LOGS"
    /\ IF Argv(result) # <<>>
       THEN \E how \in ExecOutcomes : RunAndAppend(Argv(result), how)
       ELSE /\ context' = AppendResult(context, result,
                              [tag |-> "Unknown action", cmd |-> <<>>, text |-> result.type])
            /\ printed' = "ClusterOutput"
            /\ pc' = "AwaitingInput"
            /\ UNCHANGED <<cmd, run_cmd_calls, exc>>
    /\ UNCHANGED <<fn_vars, all_pods, ns, pod, reason, current_idx, user_input, ctrl_n,
                   user_prompt, result, logs_locals>>

\* list(dict.fromkeys(s)): the elements of s, each kept at its first
\* occurrence.
RECURSIVE Dedup(_)
Dedup(s) ==
    IF s = <<>> THEN <<>>
    ELSE LET front == Dedup(SubSeq(s, 1, Len(s) - 1))
             last == s[Len(s)]
         IN  IF \E i \in DOMAIN front : front[i] = last THEN front
             ELSE Append(front, last)

\* The names with a truthy name, in order.
Named(names) == SelectSeq(names, LAMBDA c : c # "" /\ c # None)

\* unique_names of a pod that was read.
UniqueNames(rd) == Dedup(Named(rd.init_containers) \o Named(rd.containers))

\* The LOGS branch up to the container prompt, or to the end when no
\* prompt is shown.
ActionLogs ==
    /\ pc = "ActionHandling"
    /\ ~IsStop(result)
    /\ result.type = "LOGS"
    /\ target_namespace' = Or(result.namespace, ns)
    /\ target_pod' = Or(result.name, pod)
    /\ \E rd \in PodReads :
        LET names == IF rd.raises THEN <<>> ELSE UniqueNames(rd) IN
        /\ unique_names' = names
        /\ IF Len(names) > 1
           THEN /\ selected_container' = None
                /\ printed' = "SelectContainer"
                /\ pc' = "SelectContainer"
                /\ UNCHANGED <<context, cmd, run_cmd_calls, exc>>
           ELSE /\ selected_container' = (IF Len(names) = 1 THEN names[1] ELSE None)
                /\ \E how \in ExecOutcomes :
                       RunAndAppend(LogsArgv(target_pod', target_namespace',
                                             selected_container'), how)
    /\ UNCHANGED <<fn_vars, all_pods, ns, pod, reason, current_idx, user_input, ctrl_n,
                   user_prompt, result>>

\* One answer to "Select a container (number): ".
SelectContainer ==
    /\ pc = "SelectContainer"
    /\ \E e \in ContainerEntries :
        LET n == ParseInt(e.line) IN
        IF e.eof
        THEN \* EOFError is caught by the except Exception of the enumeration
             /\ selected_container' = None
             /\ \E how \in ExecOutcomes :
                    RunAndAppend(LogsArgv(target_pod, target_namespace, None), how)
        ELSE IF n.ok /\ ValidIndex(n.val - 1, Len(unique_names))
        THEN /\ selected_container' = unique_names[n.val]
             /\ \E how \in ExecOutcomes :
                    RunAndAppend(LogsArgv(target_pod, target_namespace,
                                          selected_container'), how)
        ELSE /\ printed' = (IF n.ok THEN "InvalidChoice" ELSE "PleaseEnterNumber")
             /\ UNCHANGED <<selected_container, context, cmd, run_cmd_calls, pc, exc>>
    /\ UNCHANGED <<fn_vars, all_pods, ns, pod, reason, current_idx, user_input, ctrl_n,
                   user_prompt, result, target_namespace, target_pod, unique_names>>

(***************************************************************************)
(* The FinalAnalysis branch and the final else.                            *)
(***************************************************************************)
AnalysisHandling ==
    /\ pc = "AnalysisHandling"
    /\ context' = Append(context,
                         [block |-> "Final Analysis", root_cause |-> result.root_cause,
                          remediation |-> _format_bullets(result.remediation)])
    /\ printed' = "FinalAnalysis"
    /\ pc' = "AwaitingInput"
    /\ UNCHANGED <<fn_vars, all_pods, ns, pod, reason, current_idx, user_input, ctrl_n,
                   user_prompt, result, logs_locals, cmd, run_cmd_calls, exc>>

\* The text of a result that is neither model.
ResponseText(r) ==
    IF r.output_text # "" THEN r.output_text
    ELSE IF r.dump # "" THEN r.dump
    ELSE r.str

PassthroughHandling ==
    /\ pc = "PassthroughHandling"
    /\ context' = Append(context, [block |-> "Model Response", text |-> ResponseText(result)])
    /\ printed' = "ModelResponse"
    /\ pc' = "AwaitingInput"
    /\ UNCHANGED <<fn_vars, all_pods, ns, pod, reason, current_idx, user_input, ctrl_n,
                   user_prompt, result, logs_locals, cmd, run_cmd_calls, exc>>

Next ==
    \/ SwitchSignal
    \/ ExitKeyword
    \/ LegacySwitch
    \/ SubmitText
    \/ OracleRaises
    \/ OracleReturns
    \/ ActionStop
    \/ ActionExecute
    \/ ActionLogs
    \/ SelectContainer
    \/ AnalysisHandling
    \/ PassthroughHandling

Spec == Init /\ [][Next]_vars

(***************************************************************************)
(* The session loop with the progress the program makes by itself: the     *)
(* awaited agent.run call ends (it returns or raises), the branch taken    *)
(* for its result runs to its end, and input() at the container prompt     *)
(* returns each time it is called.  Nothing is assumed of what the         *)
(* operator types, nor that a line is ever typed at the main prompt.       *)
(***************************************************************************)
LiveSpec ==
    /\ Init
    /\ [][Next]_vars
    /\ WF_vars(\/ OracleRaises
               \/ OracleReturns
               \/ ActionStop
               \/ ActionExecute
               \/ ActionLogs
               \/ SelectContainer
               \/ AnalysisHandling
               \/ PassthroughHandling)

(***************************************************************************)
(* chat_loop called with any initial target, a record of the working set   *)
(* or not.                                                                 *)
(***************************************************************************)
InitAnyTarget ==
    /\ all_pods \in WorkingSets
    /\ \E i \in 1..Len(PodPool) :
           /\ ns = PodPool[i][1]
           /\ pod = PodPool[i][2]
           /\ reason = PodPool[i][3]
    /\ current_idx = FirstMatch(all_pods, ns, pod, reason)
    /\ context = <<Describe(pod, ns, reason)>>
    /\ user_input = <<>>
    /\ ctrl_n = FALSE
    /\ user_prompt = <<>>
    /\ result = [kind |-> "NoResult"]
    /\ target_namespace = None
    /\ target_pod = None
    /\ unique_names = <<>>
    /\ selected_container = None
    /\ cmd = <<>>
    /\ run_cmd_calls = 0
    /\ printed = "Started"
    /\ pc = "AwaitingInput"
    /\ exc = ""
    /\ ScanIdle
    /\ InputIdle

SpecAnyTarget == InitAnyTarget /\ [][Next]_vars

(***************************************************************************)
(* get_failing_pods and resolve_controller_for_pod.  A reason is a         *)
(* sequence of character codes, so that sorted() and ", ".join act on it  *)
(* as in the code; the empty sequence stands for both None and "", which   *)
(* every test of the code on these fields (x or y, if not x) treats alike. *)
(***************************************************************************)
t_PodCompleted ==
    Text(<<"P", "o", "d", "C", "o", "m",
           "p", "l", "e", "t", "e", "d">>)
t_NotReady == Text(<<"N", "o", "t", "R", "e", "a", "d", "y">>)

\* Reasons, messages and phases the cluster reports.
t_Error == Text(<<"E", "r", "r", "o", "r">>)
t_Completed == Text(<<"C", "o", "m", "p", "l", "e", "t", "e", "d">>)
t_CrashLoopBackOff ==
    Text(<<"C", "r", "a", "s", "h", "L", "o", "o",
           "p", "B", "a", "c", "k", "O", "f", "f">>)
t_ContainersNotReady ==
    Text(<<"C", "o", "n", "t", "a", "i", "n", "e", "r",
           "s", "N", "o", "t", "R", "e", "a", "d", "y">>)
t_Unschedulable ==
    Text(<<"U", "n", "s", "c", "h", "e",
           "d", "u", "l", "a", "b", "l", "e">>)
t_Pending == Text(<<"P", "e", "n", "d", "i", "n", "g">>)
t_unready == Text(<<"u", "n", "r", "e", "a", "d", "y">>)

\* Longest listing pods.items the scan is given.
MaxItems == 2

\* a < b for Python strings: by code point, a proper prefix first.
RECURSIVE LexLess(_, _)
LexLess(a, b) ==
    IF b = <<>> THEN FALSE
    ELSE IF a = <<>> THEN TRUE
    ELSE IF Head(a) # Head(b) THEN Head(a) < Head(b)
    ELSE LexLess(Tail(a), Tail(b))

\* set(seq)
SetOf(seq) == {seq[i] : i \in DOMAIN seq}

\* sorted(S) for a set of strings.
RECURSIVE Sorted(_)
Sorted(S) ==
    IF S = {} THEN <<>>
    ELSE LET m == CHOOSE x \in S : \A y \in S \ {x} : LexLess(x, y)
         IN  <<m>> \o Sorted(S \ {m})

\* sep.join(parts)
RECURSIVE Join(_, _)
Join(sep, parts) ==
    IF parts = <<>> THEN <<>>
    ELSE IF Len(parts) = 1 THEN parts[1]
    ELSE parts[1] \o sep \o Join(sep, Tail(parts))

\* ", "
CommaSpace == <<44, 32>>

Min(S) == CHOOSE i \in S : \A j \in S : i <= j

\* The status of a pod: its conditions, the states of its containers and
\* its phase.
PodStatuses ==
    { \* ready
      [conditions |-> <<[type |-> "Ready", status |-> "True",
                         reason |-> <<>>, message |-> <<>>]>>,
       container_statuses |-> <<>>, phase |-> t_Pending],
      \* ready, the Ready condition not the first one
      [conditions |-> <<[type |-> "PodScheduled", status |-> "False",
                         reason |-> t_Unschedulable, message |-> <<>>],
                        [type |-> "Ready", status |-> "True",
                         reason |-> <<>>, message |-> <<>>]>>,
       container_statuses |-> <<[waiting |-> t_Error, terminated |-> <<>>]>>,
       phase |-> t_Pending],
      \* Ready False with a reason, and containers with reasons
      [conditions |-> <<[type |-> "PodScheduled", status |-> "True",
                         reason |-> <<>>, message |-> <<>>],
                        [type |-> "Ready", status |-> "False",
                         reason |-> t_ContainersNotReady, message |-> t_unready]>>,
       container_statuses |-> <<[waiting |-> t_CrashLoopBackOff, terminated |-> <<>>]>>,
       phase |-> t_Pending],
      \* Ready Unknown with a message only
      [conditions |-> <<[type |-> "Ready", status |-> "Unknown",
                         reason |-> <<>>, message |-> t_unready]>>,
       container_statuses |-> <<[waiting |-> t_CrashLoopBackOff, terminated |-> <<>>]>>,
       phase |-> t_Pending],
      \* Ready False without reason or message; three container reasons,
      \* one of them twice, not in sorted order
      [conditions |-> <<[type |-> "Ready", status |-> "False",
                         reason |-> <<>>, message |-> <<>>]>>,
       container_statuses |-> <<[waiting |-> t_Error, terminated |-> t_Completed],
                                [waiting |-> <<>>, terminated |-> <<>>],
                                [waiting |-> t_Error, terminated |-> <<>>]>>,
       phase |-> t_Pending],
      \* no Ready condition, another condition with a reason, no container
      \* reason: the phase
      [conditions |-> <<[type |-> "PodScheduled", status |-> "False",
                         reason |-> t_Unschedulable, message |-> <<>>]>>,
       container_statuses |-> <<[waiting |-> <<>>, terminated |-> <<>>]>>,
       phase |-> t_Pending],
      \* nothing at all
      [conditions |-> <<>>, container_statuses |-> <<>>, phase |-> <<>>],
      \* Ready False with reason PodCompleted
      [conditions |-> <<[type |-> "Ready", status |-> "False",
                         reason |-> t_PodCompleted, message |-> <<>>]>>,
       container_statuses |-> <<[waiting |-> <<>>, terminated |-> t_Completed]>>,
       phase |-> t_Pending],
      \* PodCompleted as the only container reason
      [conditions |-> <<>>,
       container_statuses |-> <<[waiting |-> <<>>, terminated |-> t_PodCompleted]>>,
       phase |-> t_Pending],
      \* PodCompleted among several container reasons
      [conditions |-> <<[type |-> "Ready", status |-> "False",
                         reason |-> <<>>, message |-> <<>>]>>,
       container_statuses |-> <<[waiting |-> <<>>, terminated |-> t_PodCompleted],
                                [waiting |-> t_Error, terminated |-> <<>>]>>,
       phase |-> t_Pending] }

\* The owner references of a pod (controller None counts as False).
OwnerReferences ==
    { <<>>,
      <<[kind |-> "ReplicaSet", name |-> "web-rs", controller |-> TRUE]>>,
      <<[kind |-> "ReplicaSet", name |-> "web-rs", controller |-> FALSE]>>,
      <<[kind |-> "Node", name |-> "node-1", controller |-> FALSE],
        [kind |-> "ReplicaSet", name |-> "web-rs", controller |-> TRUE]>>,
      <<[kind |-> "StatefulSet", name |-> "db", controller |-> TRUE]>>,
      <<[kind |-> "Job", name |-> "job-x", controller |-> TRUE],
        [kind |-> "ReplicaSet", name |-> "web-rs", controller |-> TRUE]>> }

\* The pods of a listing, without their names: every status with one owner
\* list, and every owner list with one status.
PodShapes ==
    {[namespace |-> "prod", name |-> "", conditions |-> s.conditions,
      container_statuses |-> s.container_statuses, phase |-> s.phase,
      owner_references |-> o] :
        s \in PodStatuses,
        o \in {<<[kind |-> "ReplicaSet", name |-> "web-rs", controller |-> TRUE]>>}}
    \cup
    {[namespace |-> "prod", name |-> "", conditions |-> <<>>,
      container_statuses |-> <<>>, phase |-> t_Pending,
      owner_references |-> o] : o \in OwnerReferences}

\* metadata.name of the pods of a listing, by position.
PodNames == <<"pod-1", "pod-2", "pod-3", "pod-4">>

\* pods.items
Listings ==
    UNION {{[i \in 1..n |-> [f[i] EXCEPT !.name = PodNames[i]]] :
                f \in [1..n -> PodShapes]} :
            n \in 0..(IF MaxItems < Len(PodNames) THEN MaxItems ELSE Len(PodNames))}

\* What read_namespaced_replica_set answers: it raises, or a ReplicaSet with
\* these owner references.
ReplicaSetReads ==
    {[called |-> TRUE, raises |-> TRUE, owner_references |-> <<>>],
     [called |-> TRUE, raises |-> FALSE, owner_references |-> <<>>],
     [called |-> TRUE, raises |-> FALSE, owner_references |->
        <<[kind |-> "Deployment", name |-> "web", controller |-> TRUE]>>],
     [called |-> TRUE, raises |-> FALSE, owner_references |->
        <<[kind |-> "Deployment", name |-> "old", controller |-> FALSE],
          [kind |-> "Deployment", name |-> "web", controller |-> TRUE]>>],
     [called |-> TRUE, raises |-> FALSE, owner_references |->
        <<[kind |-> "Rollout", name |-> "web", controller |-> TRUE]>>]}

\* read_namespaced_replica_set is not called.
NotCalled == [called |-> FALSE, raises |-> FALSE, owner_references |-> <<>>]

\* The first condition of type "Ready".
ReadyCondition(p) ==
    LET R == {i \in DOMAIN p.conditions : p.conditions[i].type = "Ready"} IN
    IF R = {}
    THEN [found |-> FALSE, status |-> "", reason |-> <<>>, message |-> <<>>]
    ELSE LET c == p.conditions[Min(R)] IN
         [found |-> TRUE, status |-> c.status, reason |-> c.reason,
          message |-> c.message]

\* Variant of is_ready that reads the status of the first condition,
\* whatever its type.
is_ready_FirstCondition(p) ==
    p.conditions # <<>> /\ p.conditions[1].status = "True"

\* ready_condition is not None and its status == "True"
is_ready(p) ==
    LET rc == ReadyCondition(p) IN rc.found /\ rc.status = "True"

\* container_reasons: the waiting and the terminated reason of every
\* container status, in order, those that are set.
RECURSIVE ContainerReasons(_)
ContainerReasons(statuses) ==
    IF statuses = <<>> THEN <<>>
    ELSE LET cs == Head(statuses) IN
         (IF cs.waiting # <<>> THEN <<cs.waiting>> ELSE <<>>)
         \o (IF cs.terminated # <<>> THEN <<cs.terminated>> ELSE <<>>)
         \o ContainerReasons(Tail(statuses))

\* Variant of DeriveReason that looks at the containers before the Ready
\* condition.
DeriveReason_ContainersFirst(p) ==
    LET rc == ReadyCondition(p)
        crs == ContainerReasons(p.container_statuses)
        from_condition ==
            IF rc.found
            THEN (IF rc.reason # <<>> THEN rc.reason ELSE rc.message)
            ELSE <<>>
        first == IF crs # <<>> THEN Join(CommaSpace, Sorted(SetOf(crs))) ELSE <<>>
        second == IF first # <<>> THEN first ELSE from_condition
    IN  IF second # <<>> THEN second
        ELSE IF p.phase # <<>> THEN p.phase ELSE t_NotReady

\* The reason of a pod that is not ready (lines 175-198).
DeriveReason(p) ==
    LET rc == ReadyCondition(p)
        crs == ContainerReasons(p.container_statuses)
        from_condition ==
            IF rc.found
            THEN (IF rc.reason # <<>> THEN rc.reason ELSE rc.message)
            ELSE <<>>
        from_containers ==
            IF from_condition # <<>> THEN from_condition
            ELSE IF crs # <<>> THEN Join(CommaSpace, Sorted(SetOf(crs)))
            ELSE <<>>
    IN  IF from_containers # <<>> THEN from_containers
        ELSE IF p.phase # <<>> THEN p.phase ELSE t_NotReady

\* Variant of ControllerRef that takes the first reference whatever its flag.
ControllerRef_First(owner_refs) ==
    IF owner_refs # <<>> THEN [found |-> TRUE, ref |-> owner_refs[1]]
    ELSE [found |-> FALSE, ref |-> [kind |-> None, name |-> None, controller |-> FALSE]]

\* controller_ref: the first reference flagged as controller, else the first
\* reference, else None.
ControllerRef(owner_refs) ==
    LET F == {i \in DOMAIN owner_refs : owner_refs[i].controller} IN
    IF F # {} THEN [found |-> TRUE, ref |-> owner_refs[Min(F)]]
    ELSE IF owner_refs # <<>> THEN [found |-> TRUE, ref |-> owner_refs[1]]
    ELSE [found |-> FALSE, ref |-> [kind |-> None, name |-> None, controller |-> FALSE]]

\* resolve_controller_for_pod(pod) when read_namespaced_replica_set answers
\* rs.  read_namespaced_job changes nothing: ("Job", name) is returned
\* whether it raises or not.
resolve_controller_for_pod(p, rs) ==
    LET c == ControllerRef(p.owner_references)
        kind == c.ref.kind
        name == c.ref.name
    IN
    IF ~c.found THEN <<None, None>>
    ELSE IF kind = "ReplicaSet"
    THEN IF rs.raises THEN <<"ReplicaSet", name>>
         ELSE LET D == {i \in DOMAIN rs.owner_references :
                            /\ rs.owner_references[i].controller
                            /\ rs.owner_references[i].kind = "Deployment"}
              IN  IF D # {} THEN <<"Deployment", rs.owner_references[Min(D)].name>>
                  ELSE <<"ReplicaSet", name>>
    ELSE <<kind, name>>

\* The answers read_namespaced_replica_set can give while pod p is resolved.
ReadsFor(p) ==
    LET c == ControllerRef(p.owner_references) IN
    IF c.found /\ c.ref.kind = "ReplicaSet" THEN ReplicaSetReads ELSE {NotCalled}

\* chat_loop has not been entered.
ChatIdle ==
    /\ all_pods = <<>>
    /\ ns = None
    /\ pod = None
    /\ reason = None
    /\ current_idx = 0
    /\ context = <<>>
    /\ user_input = <<>>
    /\ ctrl_n = FALSE
    /\ user_prompt = <<>>
    /\ result = [kind |-> "NoResult"]
    /\ target_namespace = None
    /\ target_pod = None
    /\ unique_names = <<>>
    /\ selected_container = None
    /\ cmd = <<>>
    /\ run_cmd_calls = 0
    /\ printed = ""
    /\ pc = "NotStarted"
    /\ exc = ""

\* get_failing_pods has listed the pods.
InitScan ==
    /\ ChatIdle
    /\ InputIdle
    /\ items \in Listings
    /\ item_idx = 0
    /\ scan_reason = <<>>
    /\ rs_read = NotCalled
    /\ not_ready = <<>>
    /\ scan_pc = "scanning"

\* One iteration of `for pod in pods.items`.
ExaminePod ==
    /\ scan_pc = "scanning"
    /\ item_idx < Len(items)
    /\ item_idx' = item_idx + 1
    /\ LET p == items[item_idx + 1] IN
       IF is_ready(p)
       THEN /\ scan_reason' = <<>>
            /\ rs_read' = NotCalled
            /\ UNCHANGED not_ready
       ELSE /\ scan_reason' = DeriveReason(p)
            /\ IF scan_reason' = t_PodCompleted
               THEN /\ rs_read' = NotCalled
                    /\ UNCHANGED not_ready
               ELSE \E rs \in ReadsFor(p) :
                        LET ctrl == resolve_controller_for_pod(p, rs) IN
                        /\ rs_read' = rs
                        /\ not_ready' = Append(not_ready,
                               <<p.namespace, p.name, scan_reason', ctrl[1], ctrl[2]>>)
    /\ UNCHANGED <<items, scan_pc>>
    /\ UNCHANGED <<chat_vars, input_vars>>

\* return not_ready
ScanReturn ==
    /\ scan_pc = "scanning"
    /\ item_idx = Len(items)
    /\ scan_pc' = "returned"
    /\ UNCHANGED <<items, item_idx, scan_reason, rs_read, not_ready>>
    /\ UNCHANGED <<chat_vars, input_vars>>

NextScan ==
    \/ ExaminePod
    \/ ScanReturn

SpecScan == InitScan /\ [][NextScan]_vars

(***************************************************************************)
(* The FinalAnalysis branch on its own: agent.run has returned a           *)
(* FinalAnalysis whose remediation is any text of up to MaxText characters *)
(* over digits, a period, a space, a hyphen, a line feed and a letter.     *)
(***************************************************************************)
\* Longest remediation text.
MaxText == 4

\* '1', '0', '.', ' ', '-', line feed, 'a'
TextAlphabet == {49, 48, 46, 32, 45, LF, 97}

\* result.remediation
Remediations ==
    UNION {[1..n -> TextAlphabet] : n \in 0..MaxText}

InitFormat ==
    /\ all_pods = SubSeq(PodPool, 1, 1)
    /\ ns = all_pods[1][1]
    /\ pod = all_pods[1][2]
    /\ reason = all_pods[1][3]
    /\ current_idx = 0
    /\ context = <<Describe(pod, ns, reason)>>
    /\ user_input = Text(<<"h", "i">>)
    /\ ctrl_n = FALSE
    /\ user_prompt = BuildPrompt(context, user_input)
    /\ \E r \in Remediations :
           result = [kind |-> "FinalAnalysis", root_cause |-> "OOMKilled",
                     remediation |-> r]
    /\ target_namespace = None
    /\ target_pod = None
    /\ unique_names = <<>>
    /\ selected_container = None
    /\ cmd = <<>>
    /\ run_cmd_calls = 0
    /\ printed = ""
    /\ pc = "AnalysisHandling"
    /\ exc = ""
    /\ ScanIdle
    /\ InputIdle

NextFormat ==
    \/ AnalysisHandling

SpecFormat == InitFormat /\ [][NextFormat]_vars

(***************************************************************************)
(* One call of read_user_input_or_ctrl_n, byte by byte, with the terminal  *)
(* attributes it saves, changes and restores.                              *)
(***************************************************************************)
\* Longest sequence of bytes waiting on stdin.
MaxKeys == 3

\* Ctrl+N, carriage return, line feed, backspace, 'a', space and the
\* control character 0x01.
ByteAlphabet == {CtrlN, CR, LF, Backspace, 97, 32, 1}

ByteStreams ==
    UNION {[1..n -> ByteAlphabet] : n \in 0..MaxKeys}

\* The attributes the terminal can have when the routine is called.
TtyStates == {"cooked", "noecho"}

\* Variant of tcsetattr that sets the default attributes whatever it is
\* given.
tcsetattr_Sane(attrs) == "cooked"

\* The attributes of the terminal after
\* termios.tcsetattr(fd, termios.TCSADRAIN, attrs).
tcsetattr(attrs) == attrs

\* Variant of OnChar in which Ctrl+N returns the text typed so far.
OnChar_CtrlNKeepsText(ch, buf) ==
    IF ch = CtrlN
    THEN [done |-> TRUE, text |-> Strip(buf), ctrl_n |-> TRUE, buffer |-> buf]
    ELSE IF ch \in {CR, LF}
    THEN [done |-> TRUE, text |-> Strip(buf), ctrl_n |-> FALSE, buffer |-> buf]
    ELSE IF ch = Backspace
    THEN [done |-> FALSE, text |-> <<>>, ctrl_n |-> FALSE,
          buffer |-> IF buf # <<>> THEN SubSeq(buf, 1, Len(buf) - 1) ELSE buf]
    ELSE IF FirstPrintable <= ch /\ ch <= LastPrintable
    THEN [done |-> FALSE, text |-> <<>>, ctrl_n |-> FALSE, buffer |-> Append(buf, ch)]
    ELSE [done |-> FALSE, text |-> <<>>, ctrl_n |-> FALSE, buffer |-> buf]

\* One pass of the while loop for the character ch (lines 277-295): whether
\* the routine returns, what it returns, and the buffer afterwards.
OnChar(ch, buf) ==
    IF ch = CtrlN
    THEN [done |-> TRUE, text |-> <<>>, ctrl_n |-> TRUE, buffer |-> buf]
    ELSE IF ch \in {CR, LF}
    THEN [done |-> TRUE, text |-> Strip(buf), ctrl_n |-> FALSE, buffer |-> buf]
    ELSE IF ch = Backspace
    THEN [done |-> FALSE, text |-> <<>>, ctrl_n |-> FALSE,
          buffer |-> IF buf # <<>> THEN SubSeq(buf, 1, Len(buf) - 1) ELSE buf]
    ELSE IF FirstPrintable <= ch /\ ch <= LastPrintable
    THEN [done |-> FALSE, text |-> <<>>, ctrl_n |-> FALSE, buffer |-> Append(buf, ch)]
    ELSE [done |-> FALSE, text |-> <<>>, ctrl_n |-> FALSE, buffer |-> buf]

\* chat_loop calls the routine at its first prompt.
InitInput ==
    /\ all_pods = SubSeq(PodPool, 1, 1)
    /\ ns = all_pods[1][1]
    /\ pod = all_pods[1][2]
    /\ reason = all_pods[1][3]
    /\ current_idx = 0
    /\ context = <<Describe(pod, ns, reason)>>
    /\ user_input = <<>>
    /\ ctrl_n = FALSE
    /\ user_prompt = <<>>
    /\ result = [kind |-> "NoResult"]
    /\ target_namespace = None
    /\ target_pod = None
    /\ unique_names = <<>>
    /\ selected_container = None
    /\ cmd = <<>>
    /\ run_cmd_calls = 0
    /\ printed = "Started"
    /\ pc = "AwaitingInput"
    /\ exc = ""
    /\ ScanIdle
    /\ stdin \in ByteStreams
    /\ buffer = <<>>
    /\ old_settings = None
    /\ tty_attrs \in TtyStates
    /\ entry_attrs = tty_attrs
    /\ returned = [text |-> <<>>, ctrl_n |-> FALSE]
    /\ rd_pc = "call"

\* old_settings = termios.tcgetattr(fd), before the try: it returns the
\* attributes, or raises (stdin is not a terminal) and the routine is left
\* with nothing changed.
SaveSettings ==
    /\ rd_pc = "call"
    /\ \/ /\ old_settings' = tty_attrs
          /\ rd_pc' = "saved"
       \/ /\ rd_pc' = "raised_tcgetattr"
          /\ UNCHANGED old_settings
    /\ UNCHANGED <<stdin, buffer, tty_attrs, entry_attrs, returned>>
    /\ UNCHANGED <<chat_vars, scan_vars>>

\* tty.setraw(fd), buffer = [] and the prompt written: the loop is entered,
\* or setraw or the write raises and the finally clause runs.
EnterRaw ==
    /\ rd_pc = "saved"
    /\ \/ /\ tty_attrs' = "raw"
          /\ buffer' = <<>>
          /\ rd_pc' = "reading"
       \/ /\ tty_attrs' = tcsetattr(old_settings)
          /\ rd_pc' = "raised_setraw"
          /\ UNCHANGED buffer
       \/ /\ tty_attrs' = tcsetattr(old_settings)
          /\ buffer' = <<>>
          /\ rd_pc' = "raised_write"
    /\ UNCHANGED <<stdin, old_settings, entry_attrs, returned>>
    /\ UNCHANGED <<chat_vars, scan_vars>>

\* ch = sys.stdin.read(1) and the rest of one pass of the loop; a return
\* runs the finally clause.
ReadChar ==
    /\ rd_pc = "reading"
    /\ stdin # <<>>
    /\ stdin' = Tail(stdin)
    /\ LET r == OnChar(Head(stdin), buffer) IN
        /\ buffer' = r.buffer
        /\ IF r.done
           THEN /\ returned' = [text |-> r.text, ctrl_n |-> r.ctrl_n]
                /\ tty_attrs' = tcsetattr(old_settings)
                /\ rd_pc' = "returned"
           ELSE UNCHANGED <<returned, tty_attrs, rd_pc>>
    /\ UNCHANGED <<old_settings, entry_attrs>>
    /\ UNCHANGED <<chat_vars, scan_vars>>

\* sys.stdin.read(1) raises: the finally clause runs and the error leaves
\* the routine.
ReadFails ==
    /\ rd_pc = "reading"
    /\ tty_attrs' = tcsetattr(old_settings)
    /\ rd_pc' = "raised_read"
    /\ UNCHANGED <<stdin, buffer, old_settings, entry_attrs, returned>>
    /\ UNCHANGED <<chat_vars, scan_vars>>

NextInput ==
    \/ SaveSettings
    \/ EnterRaw
    \/ ReadChar
    \/ ReadFails

SpecInput == InitInput /\ [][NextInput]_vars

(***************************************************************************)
(* Properties.                                                             *)
(***************************************************************************)
IsPrefix(a, b) == Len(a) <= Len(b) /\ SubSeq(b, 1, Len(a)) = a

Last(seq) == seq[Len(seq)]

\* The current target is the working-set record at index idx (0-based) and
\* the context is the fresh description of that record alone.
FreshOn(idx) ==
    /\ current_idx' = idx
    /\ <<ns', pod', reason'>> = SubSeq(all_pods[idx + 1], 1, 3)
    /\ context' = <<[block |-> "Pod", pod |-> all_pods[idx + 1][2],
                     namespace |-> all_pods[idx + 1][1],
                     reason |-> all_pods[idx + 1][3]]>>

\* C1: a switch signal read in AwaitingInput moves the cursor one position
\* forward modulo the size of the working set, makes the record at the new
\* cursor the current target, replaces the context by the description of
\* that target alone, keeps the session in AwaitingInput and calls no oracle.
C1_SwitchSignalAdvances ==
    [][(pc = "AwaitingInput" /\ ctrl_n')
          => /\ FreshOn((current_idx + 1) % Len(all_pods))
             /\ pc' = "AwaitingInput"
             /\ user_prompt' = <<>>
             /\ result'.kind = "NoResult"]_vars

\* C1 witness: a switch signal wrapped the cursor of a two-record working
\* set back to the first record.
C1_Witness ==
    /\ pc = "AwaitingInput" /\ ctrl_n /\ printed = "Switched"
    /\ Len(all_pods) = 2 /\ current_idx = 0

\* C2: when the ActionRequest being handled is STOP, the next step ends the
\* session; it issues no command and no cluster query, and leaves the
\* context as it is.
C2_StopExitsDirectly ==
    [][(pc = "ActionHandling" /\ result.type = "STOP")
          => /\ pc' = "Exited"
             /\ context' = context
             /\ cmd = <<>> /\ cmd' = <<>>
             /\ UNCHANGED logs_locals
             /\ exc' = ""]_vars

\* C2 witness: the session ended on a STOP received on a context that
\* already holds a result.
C2_Witness ==
    /\ pc = "Exited"
    /\ result.kind = "ActionRequest" /\ result.type = "STOP"
    /\ Len(context) > 1

\* C3: the session ends only on an exit keyword typed by the operator or
\* on an ActionRequest of type STOP; no failure of a command execution and
\* no omitted namespace or name ends it.
C3_EndsOnlyByExitOrStop ==
    pc \in {"Exited", "Crashed"}
        => \/ IsExit(user_input)
           \/ (result.kind = "ActionRequest" /\ result.type = "STOP")

\* C4: when the oracle call fails, the error is reported and the session is
\* back in AwaitingInput with the context it had when the prompt of the
\* failed turn was built from it; cursor and current target are unchanged.
C4_OracleFailureKeepsContext ==
    [][(pc = "OracleTurn" /\ pc' = "AwaitingInput")
          => /\ printed' = "ModelError"
             /\ context' = SubSeq(user_prompt, 1, Len(user_prompt) - 1)
             /\ Last(user_prompt).block = "User"
             /\ UNCHANGED <<current_idx, ns, pod, reason, all_pods>>]_vars

\* C4 witness: the oracle call failed on a context that holds a result of
\* an earlier turn, with the second record selected.
C4_Witness ==
    /\ pc = "AwaitingInput" /\ printed = "ModelError"
    /\ Len(context) > 1 /\ current_idx = 1

\* C5: while the oracle is being called, the context ends with the block
\* "User: " + input of the turn.
C5_UtteranceInContext ==
    pc = "OracleTurn"
        => /\ Last(context).block = "User"
           /\ Last(context).text = user_input

\* The number a committed line carries after "switch": [ok |-> FALSE] when
\* the line has no second word or the word is not a number.
SwitchNumber(text) ==
    IF Len(Split(text)) >= 2
    THEN ParseInt(Split(text)[2])
    ELSE [ok |-> FALSE, val |-> 0]

\* The step reads a switch signal, or a "switch <number>" line whose number
\* is a 1-based index into the working set.
SwitchStep ==
    /\ pc = "AwaitingInput"
    /\ \/ ctrl_n'
       \/ /\ StartsWith(user_input', kw_switch)
          /\ SwitchNumber(user_input').ok
          /\ SwitchNumber(user_input').val \in 1..Len(all_pods)

\* C6 as stated: in every step the context before is a prefix of the
\* context after.
C6_AppendOnly == [][IsPrefix(context, context')]_vars

\* C6 amended: in every step other than a switch the context before is a
\* prefix of the context after; a switch replaces the context by the
\* description of the newly selected target alone.
C6_AppendOnlyExceptSwitch ==
    [][IF SwitchStep
       THEN context' = <<[block |-> "Pod", pod |-> pod', namespace |-> ns',
                          reason |-> reason']>>
       ELSE IsPrefix(context, context')]_vars

\* C6 witness: a "switch 2" line replaced the context by the description of
\* the second record.
C6_Witness ==
    /\ pc = "AwaitingInput" /\ ~ctrl_n /\ printed = "Switched"
    /\ user_input = Text(<<"s", "w", "i", "t", "c", "h", " ", "2">>)
    /\ context = <<[block |-> "Pod", pod |-> "db-0", namespace |-> "prod",
                    reason |-> "ImagePullBackOff"]>>

\* C7: a command execution on an argv of strings never raises, however it
\* fails: the session is back in AwaitingInput and the context ends with a
\* result block whose output is the command's output or the tagged error
\* string that holds the argv.
C7_RunCmdNeverRaises ==
    (cmd # <<>> /\ ~HasNone(cmd))
        => /\ exc = ""
           /\ pc = "AwaitingInput"
           /\ Last(context).block = "Result"
           /\ \/ Last(context).output.tag = "stdout"
              \/ /\ Last(context).output.tag = "Error executing"
                 /\ Last(context).output.cmd = cmd

\* C8: a logs query for a pod with more than one distinct container name
\* is issued only with a container the operator chose among them.
C8_LogsAfterValidChoice ==
    (cmd # <<>> /\ cmd[2] = "logs" /\ Len(unique_names) > 1)
        => /\ \E i \in 1..Len(unique_names) : selected_container = unique_names[i]
           /\ SubSeq(cmd, Len(cmd) - 1, Len(cmd)) = <<"-c", selected_container>>

\* C9: after a non-STOP action is handled, the context has gained exactly
\* one block: a result block labelled with the action type and with the
\* namespace and name the query was issued against (for LOGS those of the
\* argv, which are the current target's where the oracle omitted them; for
\* the other types the fields of the request).
C9_ResultBlockLabel ==
    (pc = "AwaitingInput" /\ result.kind = "ActionRequest" /\ result.type # "STOP")
        => /\ Len(context) = Len(user_prompt)
           /\ Last(context).block = "Result"
           /\ Last(context).type = result.type
           /\ IF result.type = "LOGS"
              THEN /\ Last(context).name = cmd[3]
                   /\ Last(context).namespace = cmd[5]
              ELSE /\ Last(context).name = result.name
                   /\ Last(context).namespace = result.namespace

\* C10: a committed line that starts with "switch" and carries a number
\* that is a 1-based index into the working set selects that record and
\* resets the context to its description; with any other number, or with
\* no number, a message is reported and cursor, target and context stay as
\* they are.  The session stays in AwaitingInput.
C10_LegacySwitch ==
    [][(pc = "AwaitingInput" /\ ~ctrl_n' /\ StartsWith(user_input', kw_switch))
          => /\ pc' = "AwaitingInput"
             /\ IF SwitchNumber(user_input').ok
                THEN IF SwitchNumber(user_input').val \in 1..Len(all_pods)
                     THEN FreshOn(SwitchNumber(user_input').val - 1)
                     ELSE /\ printed' = "InvalidChoice"
                          /\ UNCHANGED <<current_idx, ns, pod, reason, context>>
                ELSE /\ printed' = "InvalidSwitch"
                     /\ UNCHANGED <<current_idx, ns, pod, reason, context>>]_vars

\* C10 witness: "switch 0" was refused on a context that holds a result,
\* with the second record selected.
C10_Witness ==
    /\ pc = "AwaitingInput" /\ printed = "InvalidChoice"
    /\ user_input = Text(<<"s", "w", "i", "t", "c", "h", " ", "0">>)
    /\ Len(context) > 1 /\ current_idx = 1

(***************************************************************************)
(* Properties of get_failing_pods and resolve_controller_for_pod.          *)
(***************************************************************************)
\* The pod has a Ready condition whose status is "True".
HasReadyTrue(p) ==
    \E i \in DOMAIN p.conditions :
        p.conditions[i].type = "Ready" /\ p.conditions[i].status = "True"

\* C11: every iteration of the scan leaves the result as it is when the pod
\* has a Ready condition with value "True" or its derived reason is exactly
\* "PodCompleted", and otherwise appends one entry for that pod, with a
\* non-empty reason, at the end of the result; so the result lists the other
\* pods once each, in listing order.
C11_ScanResult ==
    [][item_idx' = item_idx + 1 =>
        LET p == items[item_idx'] IN
        IF HasReadyTrue(p) \/ scan_reason' = t_PodCompleted
        THEN not_ready' = not_ready
        ELSE /\ Len(not_ready') = Len(not_ready) + 1
             /\ SubSeq(not_ready', 1, Len(not_ready)) = not_ready
             /\ Last(not_ready')[1] = p.namespace
             /\ Last(not_ready')[2] = p.name
             /\ Last(not_ready')[3] = scan_reason'
             /\ Last(not_ready')[3] # <<>>
             /\ Last(not_ready')[3] # t_PodCompleted]_vars

\* A scan of two pods has returned: the first was ready and is left out,
\* the second is listed.
C11_Witness ==
    /\ scan_pc = "returned"
    /\ Len(items) = 2
    /\ HasReadyTrue(items[1])
    /\ Len(not_ready) = 1
    /\ not_ready[1][2] = items[2].name
    /\ not_ready[1][3] # <<>>

\* The reason the priority order gives for a pod: the Ready condition's
\* reason, else its message; else the container reasons, each once, in
\* increasing order, joined by ", "; else the phase; else "NotReady".
PriorityReason(p) ==
    LET RC == {c \in SetOf(p.conditions) : c.type = "Ready"}
        rc == CHOOSE c \in RC : TRUE
        R == ({cs.waiting : cs \in SetOf(p.container_statuses)}
              \cup {cs.terminated : cs \in SetOf(p.container_statuses)}) \ {<<>>}
        inc == CHOOSE q \in [1..Cardinality(R) -> R] :
                   \A i, j \in 1..Cardinality(R) : i < j => LexLess(q[i], q[j])
    IN  IF RC # {} /\ rc.status # "True" /\ rc.reason # <<>> THEN rc.reason
        ELSE IF RC # {} /\ rc.status # "True" /\ rc.message # <<>> THEN rc.message
        ELSE IF R # {} THEN Join(CommaSpace, inc)
        ELSE IF p.phase # <<>> THEN p.phase
        ELSE t_NotReady

\* C12: the reason derived for a pod that is not ready is the one the
\* priority order gives: condition reason, condition message, container
\* reasons, phase, "NotReady".
C12_ReasonPriority ==
    (scan_pc # "idle" /\ item_idx > 0 /\ ~HasReadyTrue(items[item_idx]))
        => scan_reason = PriorityReason(items[item_idx])

\* A pod whose Ready condition carries a reason while its containers carry
\* another one has been examined, and the condition's reason was derived.
C12_Witness ==
    /\ item_idx > 0
    /\ LET p == items[item_idx] IN
        /\ \E c \in SetOf(p.conditions) :
               c.type = "Ready" /\ c.status = "False" /\ c.reason = scan_reason
        /\ scan_reason # <<>>
        /\ ContainerReasons(p.container_statuses) # <<>>

\* The last pod examined was added to the result.
LastKept ==
    /\ item_idx > 0
    /\ not_ready # <<>>
    /\ Last(not_ready)[2] = items[item_idx].name

\* C13: the controller listed for a pod comes from the owner reference
\* flagged as controller, else from the first one, else it is (None, None);
\* a ReplicaSet resolves to (Deployment, name) of an owner of the fetched
\* ReplicaSet that is flagged as controller and of kind Deployment, and to
\* (ReplicaSet, its own name) when there is none or the lookup raised; the
\* name is None exactly when the kind is.
C13_ControllerResolution ==
    LastKept =>
        LET refs == items[item_idx].owner_references
            e == Last(not_ready)
            Flagged == {i \in DOMAIN refs : refs[i].controller}
            picked == IF Flagged # {} THEN refs[Min(Flagged)] ELSE refs[1]
            Deps == {r \in SetOf(rs_read.owner_references) :
                        r.controller /\ r.kind = "Deployment"}
        IN
        /\ refs = <<>> => (e[4] = None /\ e[5] = None)
        /\ (refs # <<>> /\ picked.kind = "ReplicaSet") =>
              /\ rs_read.called
              /\ IF ~rs_read.raises /\ Deps # {}
                 THEN e[4] = "Deployment" /\ e[5] \in {d.name : d \in Deps}
                 ELSE e[4] = "ReplicaSet" /\ e[5] = picked.name
        /\ (refs # <<>> /\ picked.kind # "ReplicaSet") =>
              (e[4] = picked.kind /\ e[5] = picked.name)
        /\ (e[4] = None) <=> (e[5] = None)

\* A pod whose second owner reference is the controller, a ReplicaSet owned
\* by a Deployment, was resolved to that Deployment.
C13_Witness ==
    /\ LastKept
    /\ LET refs == items[item_idx].owner_references IN
        /\ Len(refs) = 2
        /\ ~refs[1].controller
        /\ refs[2].controller /\ refs[2].kind = "ReplicaSet"
    /\ ~rs_read.raises
    /\ Len(rs_read.owner_references) = 2
    /\ Last(not_ready)[4] = "Deployment"
    /\ Last(not_ready)[5] = "web"

(***************************************************************************)
(* Properties of the remediation formatting.                               *)
(***************************************************************************)
\* A bullet glyph followed by whitespace, or the first digit of a run of
\* digits that is followed by a period and whitespace, is at index i.
IsMarkerAt(s, i) ==
    \/ IsGlyph(s[i]) /\ i + 1 <= Len(s) /\ IsSpace(s[i + 1])
    \/ /\ IsDigit(s[i])
       /\ (i = 1 \/ ~IsDigit(s[i - 1]))
       /\ LET j == DigitRunEnd(s, i) IN
              j + 1 <= Len(s) /\ s[j] = 46 /\ IsSpace(s[j + 1])

AtLineStart(s, i) == i = 1 \/ s[i - 1] = LF

\* s from index i on, with one line feed put before every marker that is
\* not at the start of a line.
RECURSIVE OneBreakPerMarker(_, _)
OneBreakPerMarker(s, i) ==
    IF i > Len(s) THEN <<>>
    ELSE (IF IsMarkerAt(s, i) /\ ~AtLineStart(s, i) THEN <<LF>> ELSE <<>>)
         \o <<s[i]>> \o OneBreakPerMarker(s, i + 1)

\* C14: the remediation put in the context is the oracle's remediation with
\* exactly one line feed inserted before every bullet glyph or numbered
\* marker that is not at the start of a line, markers at the start of a
\* line (numbered markers of several digits included) being left as they
\* are.
C14_OneBreakBeforeMarkers ==
    (/\ pc = "AwaitingInput"
     /\ result.kind = "FinalAnalysis"
     /\ context # <<>>
     /\ Last(context).block = "Final Analysis")
        => Last(context).remediation = OneBreakPerMarker(result.remediation, 1)

(***************************************************************************)
(* Properties of read_user_input_or_ctrl_n.                                *)
(***************************************************************************)
\* A step that reads one byte.
ReadsByte == rd_pc = "reading" /\ stdin # <<>> /\ stdin' = Tail(stdin)

\* What a step that reads a byte other than CR and LF does.
OtherBytes ==
    LET ch == Head(stdin) IN
    /\ ch = CtrlN =>
          /\ rd_pc' = "returned"
          /\ returned' = [text |-> <<>>, ctrl_n |-> TRUE]
    /\ ch = Backspace =>
          /\ rd_pc' = "reading"
          /\ buffer' = IF buffer = <<>> THEN <<>>
                       ELSE SubSeq(buffer, 1, Len(buffer) - 1)
    /\ (FirstPrintable <= ch /\ ch <= LastPrintable) =>
          /\ rd_pc' = "reading"
          /\ buffer' = Append(buffer, ch)
    /\ (ch \notin {CtrlN, CR, LF, Backspace}
            /\ ~(FirstPrintable <= ch /\ ch <= LastPrintable)) =>
          /\ rd_pc' = "reading"
          /\ buffer' = buffer

C16_AttributesRestored ==
    rd_pc \in {"returned", "raised_tcgetattr", "raised_setraw",
               "raised_write", "raised_read"}
        => (tty_attrs = entry_attrs /\ tty_attrs # "raw")

\* The read of a character raised after raw mode was entered on a terminal
\* that was not in its default mode, and the attributes are back.
C16_Witness ==
    /\ rd_pc = "raised_read"
    /\ entry_attrs = "noecho"
    /\ old_settings = "noecho"
    /\ tty_attrs = "noecho"

(***************************************************************************)
(* Properties of the session loop: commands, oracle calls, progress and    *)
(* the cursor.                                                             *)
(***************************************************************************)
\* The iteration has ended (the loop is back at the prompt, or an exception
\* has left it) or the session has.
TurnOver == pc \in {"AwaitingInput", "Exited", "Crashed"}

\* C17: run_cmd is called at most once in an iteration, exactly once by the
\* end of an iteration whose result is an ActionRequest other than STOP, and
\* not at all for a STOP request, a FinalAnalysis or a free-form result;
\* every argv passed to it is kubectl with the verb describe, logs or get.
C17_OneReadOnlyCommand ==
    /\ run_cmd_calls <= 1
    /\ (cmd = <<>>) <=> (run_cmd_calls = 0)
    /\ cmd # <<>> => (cmd[1] = "kubectl" /\ cmd[2] \in {"describe", "logs", "get"})
    /\ (TurnOver /\ result.kind = "ActionRequest" /\ result.type # "STOP")
           => run_cmd_calls = 1
    /\ (result.kind # "ActionRequest" \/ result.type = "STOP")
           => run_cmd_calls = 0

\* A LOGS request for a pod of several containers has ended after the
\* container prompt with one run_cmd call, kubectl logs with -c.
C17_Witness ==
    /\ pc = "AwaitingInput"
    /\ result.kind = "ActionRequest"
    /\ result.type = "LOGS"
    /\ Len(unique_names) > 1
    /\ selected_container # None
    /\ run_cmd_calls = 1
    /\ cmd[2] = "logs"

\* C18: whenever agent.run is being called, the line committed is a
\* non-empty text that is neither an exit keyword nor a switch command.
C18_OracleOnlyForNonEmptyText ==
    pc = "OracleTurn" =>
        /\ ~ctrl_n
        /\ user_input # <<>>
        /\ ~IsExit(user_input)
        /\ ~StartsWith(user_input, kw_switch)

\* The handling of an oracle turn has completed: the loop is back at the
\* prompt or the session has ended; or a command execution did not return
\* (it raised), the case the claim sets aside.
TurnCompleted == pc \in {"AwaitingInput", "Exited"} \/ exc # ""

\* C19 as stated: every oracle turn is eventually followed by AwaitingInput
\* or Exited, whatever the operator enters at the container prompt.
C19_TurnCompletes == (pc = "OracleTurn") ~> TurnCompleted

\* C19 amended: every oracle turn is eventually followed by AwaitingInput or
\* Exited, or else the session stays at the container prompt for ever (the
\* operator never enters a number of the list and the input never ends).
C19_TurnCompletesOrPromptsForever ==
    (pc = "OracleTurn") ~> (TurnCompleted \/ [](pc = "SelectContainer"))

\* A LOGS turn that went through the container prompt is back at the main
\* prompt with its result block appended.
C19_Witness ==
    /\ pc = "AwaitingInput"
    /\ result.kind = "ActionRequest"
    /\ result.type = "LOGS"
    /\ Len(unique_names) > 1
    /\ printed = "ClusterOutput"
    /\ Last(context).block = "Result"

\* The cursor is an index of the working set.
CursorInRange == 0 <= current_idx /\ current_idx < Len(all_pods)

\* The current target is the working-set record at the cursor.
TargetAtCursor ==
    <<ns, pod, reason>> = SubSeq(all_pods[current_idx + 1], 1, 3)

\* The current target is a record of the working set.
TargetInSet ==
    \E i \in 1..Len(all_pods) : <<ns, pod, reason>> = SubSeq(all_pods[i], 1, 3)

BeginsWithSwitch(text) ==
    /\ Len(text) >= Len(kw_switch)
    /\ \A i \in 1..Len(kw_switch) : text[i] = kw_switch[i]

\* The step performs a switch: the cursor is an index of the working set,
\* the target is the record there and the context is its description
\* alone.
SwitchPerformed ==
    /\ printed' = "Switched"
    /\ current_idx' \in 0..(Len(all_pods) - 1)
    /\ <<ns', pod', reason'>> = SubSeq(all_pods[current_idx' + 1], 1, 3)
    /\ context' = <<Describe(pod', ns', reason')>>

\* The step reports an error and leaves cursor, target and context alone.
SwitchRefused ==
    /\ printed' \in {"InvalidChoice", "InvalidSwitch"}
    /\ UNCHANGED <<current_idx, ns, pod, reason, context>>

\* C21: every committed text that begins with the characters "switch",
\* of the form "switch <number>" or not, is consumed by the switch branch:
\* the step does not call the oracle (no prompt is built and the loop stays
\* at its prompt), it does not append to the context, and it either
\* performs a valid switch or reports an error.
C21_SwitchPrefixConsumed ==
    [][(pc = "AwaitingInput" /\ ~ctrl_n' /\ BeginsWithSwitch(user_input'))
          => /\ pc' = "AwaitingInput"
             /\ user_prompt' = <<>>
             /\ result'.kind = "NoResult"
             /\ Len(context') <= Len(context)
             /\ SwitchPerformed \/ SwitchRefused]_vars

\* C21 witness: the line "switching 1", which is not the word "switch"
\* followed by a number, selected the first of two records and left the
\* context holding its description alone.
C21_Witness ==
    /\ pc = "AwaitingInput" /\ printed = "Switched"
    /\ user_input = Text(<<"s", "w", "i", "t", "c", "h", "i", "n", "g", " ", "1">>)
    /\ Len(all_pods) = 2 /\ current_idx = 0
    /\ context = <<Describe(pod, ns, reason)>>

=============================================================================
